---- MODULE Spec2Model ----
(***************************************************************************)
(* Plan approval state machine of mission-control: the three HTTP handlers *)
(* POST /api/plans (createPlan), POST /api/plans/[id]/approve and          *)
(* POST /api/plans/[id]/reject, the task table they write, the activity    *)
(* log, and the two transports they publish on (the push stream and the    *)
(* subscription socket).                                                   *)
(*                                                                         *)
(* A handler is an async function: it suspends at its awaits (reading the  *)
(* route parameters and the request body) and then runs synchronously to   *)
(* its return, because every better-sqlite3 statement is synchronous.  So  *)
(* requests interleave only at the await, while each statement is its own  *)
(* committed write: the handlers open no transaction, and the process can  *)
(* die between any two statements.                                         *)
(*                                                                         *)
(* The subscription socket server (MCWebSocketServer) keeps a registry of  *)
(* clients, each with a workspace filter and a task filter, and hands the  *)
(* envelopes of its broadcast methods to the sockets of the clients that   *)
(* match.  Its methods and the handlers of its sockets run synchronously,  *)
(* one at a time.                                                          *)
(*                                                                         *)
(* Spec     one caller: the three handlers, failing store statements and   *)
(*          process crashes, from an empty (or nearly empty) table.        *)
(* SpecRace two callers of approve/reject at once, from a table that holds *)
(*          one pending plan.                                              *)
(* SpecWS   the socket server: start and stop, connections, subscribe and  *)
(*          unsubscribe messages, close and error events, broadcasts.      *)
(* SpecSSE  the push stream: GET /api/events/stream with its heartbeat    *)
(*          and abort listener, and the registry it registers with.        *)
(* SpecMig  runMigrations, called by two processes on one database file.   *)
(* SpecHook the useWebSocket hook of one component: its effect, cleanup,   *)
(*          sockets and reconnect timers.                                  *)
(* Spec and SpecRace record the broadcast call of a handler with its       *)
(* arguments and leave the connections of the socket server as             *)
(* constructed (a restart of the process starts the server); each of the   *)
(* other specifications moves its own component and leaves the rest alone. *)
(***************************************************************************)
EXTENDS Integers, Sequences, FiniteSets, Bags, TLC

\* ---------------------------------------------------------------- bounds
MaxTasks == 3
MaxSubtasks == 2

\* sockets that ever connect to the subscription socket server
MaxSockets == 2
\* the clock of the socket server stops here: it ticks with every
\* broadcast call and every client message, and the server is followed
\* until it has handled so many of them
MaxNow == 2

\* push streams that are ever opened, and the frames one of them is
\* followed for
MaxStreams == 2
MaxFrames == 3

\* WebSocket objects the client hook ever makes, and the values its
\* dependencies (url, workspaceId) take
MaxHookSockets == 3
MaxDeps == 2

TaskIds == 1..MaxTasks
\* two callers, so that two requests can be in flight at once
Slots == {"a", "b"}
\* the caller of Spec
Callers == {"a"}

\* the optional fields of a POST /api/plans body: the tag lists of the
\* parent draft and of every subtask draft (a missing list is the empty
\* one: `tags || []`) and the parent's workspace_id ("" is a missing one).
\* One body leaves all of them out, the other gives all of them.
BodyInputs == {[ptags |-> << >>, ctags |-> << >>, wsid |-> ""],
               [ptags |-> <<"ui">>, ctags |-> <<"sub">>, wsid |-> "w2"]}

VARIABLES
    tasks,       \* the tasks table: id -> row, or NoTask
    activities,  \* the task_activities table: a bag of rows
    req,         \* the HTTP requests in flight, one per slot, each with
                 \* what it has published so far on the two transports
    up           \* the server process is running

\* the subscription socket server (MCWebSocketServer)
VARIABLES
    wss,              \* this.wss is set: the server is listening
    clients,          \* this.clients: the Map, as its entries in insertion
                      \* order, each a client id and the socket of its Client
    clientIdCounter,  \* this.clientIdCounter
    conn,             \* per socket: its readyState, the Client object its
                      \* handlers hold, and what was sent to it
    now               \* the clock the envelopes are stamped with

wsvars == <<wss, clients, clientIdCounter, conn, now>>

\* the push stream (GET /api/events/stream and the registry of lib/events)
VARIABLES
    sseClients,  \* the controllers that are registered
    stream       \* per stream: the state of its ReadableStream, its
                 \* pingInterval, and the frames enqueued on it

ssevars == <<sseClients, stream>>

\* the migrations of a database
VARIABLES
    db,   \* the database file: the rows of _migrations and the schema
          \* changes that are committed
    run   \* the runMigrations calls, one per process that has the file open

migvars == <<db, run>>

\* the useWebSocket hook of one component
VARIABLES
    hook,  \* wsRef.current, reconnectTimeoutRef.current, and the effect
           \* that is mounted
    sock,  \* the WebSocket objects the hook has made
    timer  \* the setTimeout calls of the hook that are pending

hookvars == <<hook, sock, timer>>

\* what the handlers and the socket server leave alone
sidevars == <<ssevars, migvars, hookvars>>

vars == <<tasks, activities, req, up, wsvars, sidevars>>

\* ---------------------------------------------------------------- store
NoTask == [approval |-> "absent", status |-> "absent", parent |-> 0,
           sort_order |-> 0, workspace |-> "", tags |-> [json |-> << >>]]

\* a task created by a human through the task routes: no approval status
HumanTask == [approval |-> "null", status |-> "inbox", parent |-> 0,
              sort_order |-> 0, workspace |-> "default",
              tags |-> [json |-> << >>]]

Exists(t) == tasks[t] # NoTask

\* JSON.stringify / JSON.parse of a tag list: the column holds text
Stringify(list) == [json |-> list]
Parse(text) == text.json

\* ['agentic', ...(tags || [])]
WithAgentic(list) == <<"agentic">> \o list

\* parent_task.workspace_id || 'default'
WorkspaceOf(wsid) == IF wsid = "" THEN "default" ELSE wsid

\* rows WHERE parent_task_id = p
ChildrenOf(tbl, p) == {c \in TaskIds : tbl[c] # NoTask /\ tbl[c].parent = p}

RECURSIVE SortIds(_, _)
SortIds(tbl, S) ==
    IF S = {} THEN << >>
    ELSE LET m == CHOOSE x \in S : \A y \in S :
                      \/ tbl[x].sort_order < tbl[y].sort_order
                      \/ tbl[x].sort_order = tbl[y].sort_order /\ x <= y
         IN <<m>> \o SortIds(tbl, S \ {m})

\* SelectSubtasks with ORDER BY sort_order DESC
SelectSubtasksDescending(tbl, p) ==
    LET ids == SortIds(tbl, ChildrenOf(tbl, p))
        n == Len(ids)
    IN [k \in 1..n |-> [id |-> ids[n + 1 - k], row |-> tbl[ids[n + 1 - k]]]]

\* SELECT * FROM tasks WHERE parent_task_id = ? ORDER BY sort_order
SelectSubtasks(tbl, p) ==
    LET ids == SortIds(tbl, ChildrenOf(tbl, p))
    IN [k \in 1..Len(ids) |-> [id |-> ids[k], row |-> tbl[ids[k]]]]

\* ---------------------------------------------------------------- requests
NoSnapshot == [tasks |-> [t \in TaskIds |-> NoTask], activities |-> EmptyBag]

IdleReq == [op |-> "none", pc |-> "idle", id |-> 0,
            hasTitle |-> FALSE, hasSubs |-> FALSE, isArray |-> TRUE,
            subs |-> << >>, ptags |-> << >>, wsid |-> "", parentId |-> 0, i |-> 0,
            kids |-> << >>, prow |-> NoTask, rows |-> << >>,
            sse |-> << >>, ws |-> << >>,
            status |-> 0, error |-> "", arrPending |-> FALSE,
            pre |-> NoSnapshot]

\* the subtasks arrays of a body: up to MaxSubtasks drafts
DraftLists(childTags) ==
    {[k \in 1..n |-> [tags |-> childTags]] : n \in 0..MaxSubtasks}

\* the bodies of POST /api/plans { parent_task, subtasks }: one without a
\* parent title, one without subtasks, one whose subtasks is truthy and no
\* array (an object or a number: its length is undefined and the loop over
\* it takes no turn), and with a title every subtasks array under each
\* choice of the optional fields
PlanBodies ==
    {[hasTitle |-> FALSE, hasSubs |-> TRUE, isArray |-> TRUE,
      subs |-> <<[tags |-> << >>]>>, ptags |-> << >>, wsid |-> ""],
     [hasTitle |-> TRUE, hasSubs |-> FALSE, isArray |-> TRUE,
      subs |-> << >>, ptags |-> << >>, wsid |-> ""],
     [hasTitle |-> TRUE, hasSubs |-> TRUE, isArray |-> FALSE,
      subs |-> << >>, ptags |-> << >>, wsid |-> ""]}
    \cup UNION {{[hasTitle |-> TRUE, hasSubs |-> TRUE, isArray |-> TRUE,
                   subs |-> sl, ptags |-> b.ptags, wsid |-> b.wsid] :
                     sl \in DraftLists(b.ctags)} : b \in BodyInputs}

\* pcs at which a handler is inside its synchronous part
SyncPcs == {"validate", "ins_parent", "ins_child", "log_plan", "pub_created",
            "check", "upd_parent", "upd_children", "log", "read",
            "pub_sse", "pub_ws", "respond"}

Running(r) == req[r].pc \in SyncPcs

\* the event loop runs one synchronous section at a time
CanStep(r) == up /\ \A o \in Slots \ {r} : ~Running(o)

\* return NextResponse.json(..., {status}): the handler is about to return
Respond(r, st, err) ==
    [req[r] EXCEPT !.pc = "respond", !.status = st, !.error = err]

\* CreateOrder with the activity logged after the broadcast
CreateOrderLogLast == <<"validate", "ins_parent", "ins_child", "pub_created",
                        "log_plan", "respond">>

\* the statements of POST /api/plans, in program order
CreateOrder == <<"validate", "ins_parent", "ins_child", "log_plan",
                 "pub_created", "respond">>

\* ResolveOrder with the broadcasts ahead of the writes
ResolveOrderPublishFirst ==
    <<"check", "read", "pub_sse", "pub_ws", "upd_parent", "upd_children",
      "log", "respond">>

\* the statements of approve and of reject, in program order
ResolveOrder == <<"check", "upd_parent", "upd_children", "log", "read",
                  "pub_sse", "pub_ws", "respond">>

OrderOf(op) == IF op = "createPlan" THEN CreateOrder ELSE ResolveOrder

\* the statement after the one at pc
After(op, pc) ==
    LET o == OrderOf(op)
        k == CHOOSE k \in 1..Len(o) : o[k] = pc
    IN o[k + 1]

\* the statement at pc is done: on to the next one; the last one is the
\* return of the success response
Advance(q) ==
    LET n == After(q.op, q.pc)
    IN [q EXCEPT !.pc = n, !.status = IF n = "respond" THEN 200 ELSE @]

\* ------------------------------------------------- subscription socket
SocketIds == 1..MaxSockets

\* the workspace names a client can subscribe to; '*' is the wildcard
WorkspaceNames == {"default", "w2", "*"}

\* the task ids the broadcasts are about
WatchedTasks == {1}

\* a socket nobody has connected yet
NoConn == [readyState |-> "NONE", id |-> 0, subscribedWorkspaces |-> {},
           subscribedTasks |-> {}, inbox |-> << >>]

\* new MCWebSocketServer(): wss = null, clients = new Map(),
\* clientIdCounter = 0
WsConstructed ==
    /\ wss = FALSE
    /\ clients = << >>
    /\ clientIdCounter = 0
    /\ conn = [s \in SocketIds |-> NoConn]
    /\ now = 0

\* ---------------------------------------------------------- push stream
StreamIds == 1..MaxStreams

\* a stream nobody has asked for yet
NoStream == [state |-> "NONE", pingInterval |-> FALSE, aborted |-> FALSE,
             frames |-> << >>]

\* the registry of lib/events is empty when the module is loaded
SseConstructed ==
    /\ sseClients = {}
    /\ stream = [s \in StreamIds |-> NoStream]

\* ----------------------------------------------------------- migrations
\* const migrations: Migration[], by id
Migrations == <<"001", "002", "003", "004", "005", "006">>

\* the processes that open the database file
Processes == {"p", "q"}

\* no runMigrations call in progress
IdleRun == [pc |-> "idle", applied |-> {}, i |-> 0]

\* a database no migration has run on
MigFresh ==
    /\ db = [ledger |-> << >>, schema |-> << >>]
    /\ run = [p \in Processes |-> IdleRun]

\* ------------------------------------------------------------ client hook
HookSockets == 1..MaxHookSockets

\* the url option of a render: one that new WebSocket(url) takes and one
\* it raises a SyntaxError for (no ws: or wss: scheme)
UrlInputs == {[scheme |-> "ws", rest |-> "//localhost:3100"],
              [scheme |-> "", rest |-> "not a url"]}

\* a WebSocket the hook has not made yet
NoSock == [readyState |-> "NONE", deps |-> 0,
           url |-> [scheme |-> "", rest |-> ""]]

\* useRef(null) twice, before the first effect
HookUnmounted ==
    /\ hook = [phase |-> "initial", deps |-> 1, wsRef |-> 0,
               reconnectTimeoutRef |-> 0]
    /\ sock = [k \in HookSockets |-> NoSock]
    /\ timer = {}

\* the components the handlers do not touch, as constructed
SideConstructed == SseConstructed /\ MigFresh /\ HookUnmounted

Init ==
    /\ tasks \in {[t \in TaskIds |-> NoTask],
                  [t \in TaskIds |-> IF t = 1 THEN HumanTask ELSE NoTask]}
    /\ activities = EmptyBag
    /\ req = [r \in Slots |-> IdleReq]
    /\ up = TRUE
    /\ WsConstructed
    /\ SideConstructed

\* the port arguments of start: the one instrumentation.ts makes of WS_PORT
\* by default, and two that are out of range (parseInt of a WS_PORT that is
\* no number gives NaN, which is refused like them)
PortInputs == {3100, 70000, -1}

\* new WebSocketServer({ port }) takes the port; for any other it throws a
\* RangeError before it listens
ValidPort(port) == port >= 0 /\ port < 65536

\* ------------------------------------------------------------ arrivals
\* a POST /api/plans request arrives
ArriveCreatePlan(r) ==
    /\ up /\ req[r].pc = "idle"
    /\ req' = [req EXCEPT ![r] = [IdleReq EXCEPT
                 !.op = "createPlan", !.pc = "start"]]
    /\ UNCHANGED <<tasks, activities, up, wsvars, sidevars>>

\* a POST /api/plans/[id]/approve or .../reject request arrives
ArriveResolve(r) ==
    /\ up /\ req[r].pc = "idle"
    /\ \E o \in {"approve", "reject"}, t \in TaskIds :
         req' = [req EXCEPT ![r] = [IdleReq EXCEPT
                   !.op = o, !.pc = "start", !.id = t,
                   !.arrPending = (tasks[t].approval = "pending")]]
    /\ UNCHANGED <<tasks, activities, up, wsvars, sidevars>>

\* await request.json() of POST /api/plans is over: the handler has the
\* body and takes the thread.  A body that is not JSON rejects the await
\* and the JSON body null throws at `const { parent_task, ... } = body`:
\* both end in the catch block, which answers 500.
ResumeCreatePlan(r) ==
    /\ CanStep(r) /\ req[r].pc = "start" /\ req[r].op = "createPlan"
    /\ \/ \E b \in PlanBodies :
            req' = [req EXCEPT ![r] = [req[r] EXCEPT
                      !.pc = CreateOrder[1], !.hasTitle = b.hasTitle,
                      !.hasSubs = b.hasSubs, !.isArray = b.isArray,
                      !.subs = b.subs,
                      !.ptags = b.ptags, !.wsid = b.wsid,
                      !.pre = [tasks |-> tasks, activities |-> activities]]]
       \/ req' = [req EXCEPT ![r] = [Respond(r, 500, "store") EXCEPT
                      !.pre = [tasks |-> tasks, activities |-> activities]]]
    /\ UNCHANGED <<tasks, activities, up, wsvars, sidevars>>

\* await params / await request.json().catch(() => ({})) of approve and
\* reject are over (getDb(), now): the handler takes the thread.  A body
\* that is not JSON counts as {}; the JSON body null throws at
\* `const { approved_by } = body`, before the SELECT, and the catch block
\* answers 500.
ResumeResolve(r) ==
    /\ CanStep(r) /\ req[r].pc = "start" /\ req[r].op # "createPlan"
    /\ \E bodyIsNull \in BOOLEAN :
         req' = [req EXCEPT ![r] =
                   [(IF bodyIsNull THEN Respond(r, 500, "store")
                     ELSE [req[r] EXCEPT !.pc = ResolveOrder[1]])
                    EXCEPT !.pre = [tasks |-> tasks,
                                    activities |-> activities]]]
    /\ UNCHANGED <<tasks, activities, up, wsvars, sidevars>>

\* ------------------------------------------------------------ createPlan
\* uuidv4(): an opaque random id.  Ids that are not in the table are
\* interchangeable, so the least of them stands for all; an id that is in
\* the table already is a collision.
Uuids == {t \in TaskIds : Exists(t) \/ \A u \in TaskIds : u < t => Exists(u)}

\* the row a task object is built from, as the handlers return it
View(t, row) == [id |-> t, approval |-> row.approval, status |-> row.status,
                 parent |-> row.parent, sort_order |-> row.sort_order,
                 workspace |-> row.workspace, tags |-> Parse(row.tags)]

\* the parent row of a new plan
ParentRow(ptags, wsid) ==
    [approval |-> "pending", status |-> "pending_approval", parent |-> 0,
     sort_order |-> 0, workspace |-> WorkspaceOf(wsid),
     tags |-> Stringify(WithAgentic(ptags))]

\* ChildRow with positions counted from 1
ChildRowOneBased(draft, i, parentId, wsid) ==
    [approval |-> "pending", status |-> "pending_approval",
     parent |-> parentId, sort_order |-> i + 1,
     workspace |-> WorkspaceOf(wsid),
     tags |-> Stringify(WithAgentic(draft.tags))]

\* the row of subtask number i (0-based) of a new plan
ChildRow(draft, i, parentId, wsid) ==
    [approval |-> "pending", status |-> "pending_approval",
     parent |-> parentId, sort_order |-> i, workspace |-> WorkspaceOf(wsid),
     tags |-> Stringify(WithAgentic(draft.tags))]

\* if (!parent_task?.title) 400; if (!subtasks || subtasks.length === 0) 400.
\* A subtasks that is truthy and has no length (an object, a number) passes:
\* undefined === 0 is false.
Validate(r) ==
    /\ CanStep(r) /\ req[r].pc = "validate"
    /\ req' = [req EXCEPT ![r] =
         IF ~req[r].hasTitle
           THEN Respond(r, 400, "Parent task title is required")
         ELSE IF ~req[r].hasSubs
                 \/ (req[r].isArray /\ Len(req[r].subs) = 0)
           THEN Respond(r, 400, "At least one subtask is required")
         ELSE Advance(req[r])]
    /\ UNCHANGED <<tasks, activities, up, wsvars, sidevars>>

\* parentId = uuidv4(); INSERT INTO tasks (the parent row).  The statement
\* throws when the store refuses it: id is the table's primary key.
InsertParent(r) ==
    /\ CanStep(r) /\ req[r].pc = "ins_parent"
    /\ \E pid \in Uuids, ok \in BOOLEAN :
         IF ok /\ ~Exists(pid)
           THEN /\ tasks' = [tasks EXCEPT ![pid] =
                               ParentRow(req[r].ptags, req[r].wsid)]
                /\ req' = [req EXCEPT ![r] = Advance(
                             [req[r] EXCEPT !.parentId = pid, !.i = 0])]
           ELSE /\ req' = [req EXCEPT ![r] = Respond(r, 500, "store")]
                /\ UNCHANGED tasks
    /\ UNCHANGED <<activities, up, wsvars, sidevars>>

\* for (i = 0; i < subtasks.length; i++): one turn is subtaskId = uuidv4();
\* INSERT INTO tasks (child i); createdSubtasks.push(...)
InsertChild(r) ==
    /\ CanStep(r) /\ req[r].pc = "ins_child"
    /\ LET i == req[r].i
       IN IF i < Len(req[r].subs)
            THEN LET row == ChildRow(req[r].subs[i + 1], i, req[r].parentId,
                                     req[r].wsid)
                 IN \E cid \in Uuids, ok \in BOOLEAN :
                      IF ok /\ ~Exists(cid)
                        THEN /\ tasks' = [tasks EXCEPT ![cid] = row]
                             /\ req' = [req EXCEPT
                                  ![r].kids = Append(req[r].kids, View(cid, row)),
                                  ![r].i = i + 1]
                        ELSE /\ req' = [req EXCEPT
                                  ![r] = Respond(r, 500, "store")]
                             /\ UNCHANGED tasks
            ELSE /\ req' = [req EXCEPT ![r] = Advance(req[r])]
                 /\ UNCHANGED tasks
    /\ UNCHANGED <<activities, up, wsvars, sidevars>>

\* subtasks.length, as the activity message has it: undefined (-1 here)
\* when subtasks is no array
SubtasksLength(q) == IF q.isArray THEN Len(q.subs) ELSE -1

\* INSERT INTO task_activities (... parentId, 'spawned', "... N subtasks")
LogPlan(r) ==
    /\ CanStep(r) /\ req[r].pc = "log_plan"
    /\ \E ok \in BOOLEAN :
         IF ok
           THEN /\ activities' = activities (+) SetToBag(
                     {[task_id |-> req[r].parentId, type |-> "spawned",
                       n |-> SubtasksLength(req[r])]})
                /\ req' = [req EXCEPT ![r] = Advance(req[r])]
           ELSE /\ req' = [req EXCEPT ![r] = Respond(r, 500, "store")]
                /\ UNCHANGED activities
    /\ UNCHANGED <<tasks, up, wsvars, sidevars>>

\* the createdParent object of the response and of the event
CreatedParent(r) ==
    [parent |-> View(req[r].parentId, ParentRow(req[r].ptags, req[r].wsid)),
     subtasks |-> req[r].kids]

\* broadcastEvent({type: 'plan_created', payload: createdParent}); 200
PublishCreated(r) ==
    /\ CanStep(r) /\ req[r].pc = "pub_created"
    /\ req' = [req EXCEPT ![r] = Advance([req[r] EXCEPT
                 !.sse = Append(req[r].sse, [type |-> "plan_created",
                                             payload |-> CreatedParent(r)])])]
    /\ UNCHANGED <<tasks, activities, up, wsvars, sidevars>>

\* ------------------------------------------------------ approve / reject
\* SET approval_status = ..., status = ... of the two handlers
ApprovalFor(op) == IF op = "approve" THEN "approved" ELSE "rejected"
StatusFor(op) == IF op = "approve" THEN "inbox" ELSE "blocked"
\* EventFor with the type of the approve handler in both
EventForApprove(op) == "plan_approved"
EventFor(op) == IF op = "approve" THEN "plan_approved" ELSE "plan_rejected"

Resolved(row, op) ==
    [row EXCEPT !.approval = ApprovalFor(op), !.status = StatusFor(op)]

\* UPDATE tasks SET ... WHERE id = ?
UpdateParent(tbl, id, op) ==
    [t \in TaskIds |-> IF tbl[t] # NoTask /\ t = id
                         THEN Resolved(tbl[t], op) ELSE tbl[t]]

\* UpdateChildren with WHERE id = ? once more
UpdateChildrenById(tbl, id, op) ==
    [t \in TaskIds |-> IF tbl[t] # NoTask /\ t = id
                         THEN Resolved(tbl[t], op) ELSE tbl[t]]

\* UPDATE tasks SET ... WHERE parent_task_id = ?
UpdateChildren(tbl, id, op) ==
    [t \in TaskIds |-> IF tbl[t] # NoTask /\ tbl[t].parent = id
                         THEN Resolved(tbl[t], op) ELSE tbl[t]]

\* SELECT the task; 404 when there is none, 400 when it is not pending
Check(r) ==
    /\ CanStep(r) /\ req[r].pc = "check"
    /\ req' = [req EXCEPT ![r] =
         IF ~Exists(req[r].id)
           THEN Respond(r, 404, "Task plan not found")
         ELSE IF tasks[req[r].id].approval # "pending"
           THEN Respond(r, 400, "Task plan is not pending approval")
         ELSE Advance(req[r])]
    /\ UNCHANGED <<tasks, activities, up, wsvars, sidevars>>

\* the first UPDATE: the task itself
WriteParent(r) ==
    /\ CanStep(r) /\ req[r].pc = "upd_parent"
    /\ \E ok \in BOOLEAN :
         IF ok
           THEN /\ tasks' = UpdateParent(tasks, req[r].id, req[r].op)
                /\ req' = [req EXCEPT ![r] = Advance(req[r])]
           ELSE /\ req' = [req EXCEPT ![r] = Respond(r, 500, "store")]
                /\ UNCHANGED tasks
    /\ UNCHANGED <<activities, up, wsvars, sidevars>>

\* the second UPDATE: all its subtasks
WriteChildren(r) ==
    /\ CanStep(r) /\ req[r].pc = "upd_children"
    /\ \E ok \in BOOLEAN :
         IF ok
           THEN /\ tasks' = UpdateChildren(tasks, req[r].id, req[r].op)
                /\ req' = [req EXCEPT ![r] = Advance(req[r])]
           ELSE /\ req' = [req EXCEPT ![r] = Respond(r, 500, "store")]
                /\ UNCHANGED tasks
    /\ UNCHANGED <<activities, up, wsvars, sidevars>>

\* INSERT INTO task_activities (... id, 'status_changed', "Plan approved by")
LogResolve(r) ==
    /\ CanStep(r) /\ req[r].pc = "log"
    /\ \E ok \in BOOLEAN :
         IF ok
           THEN /\ activities' = activities (+) SetToBag(
                     {[task_id |-> req[r].id, type |-> "status_changed",
                       n |-> 0]})
                /\ req' = [req EXCEPT ![r] = Advance(req[r])]
           ELSE /\ req' = [req EXCEPT ![r] = Respond(r, 500, "store")]
                /\ UNCHANGED activities
    /\ UNCHANGED <<tasks, up, wsvars, sidevars>>

\* SELECT the task again and its subtasks ORDER BY sort_order
ReadBack(r) ==
    /\ CanStep(r) /\ req[r].pc = "read"
    /\ req' = [req EXCEPT ![r] = Advance([req[r] EXCEPT
                 !.prow = tasks[req[r].id],
                 !.rows = SelectSubtasks(tasks, req[r].id)])]
    /\ UNCHANGED <<tasks, activities, up, wsvars, sidevars>>

\* result = {...updatedParent, tags: parse, subtasks: subtasks.map(parse)}
ResultOf(r) ==
    [parent |-> View(req[r].id, req[r].prow),
     subtasks |-> [k \in 1..Len(req[r].rows) |->
                     View(req[r].rows[k].id, req[r].rows[k].row)]]

\* broadcastEvent({type: 'plan_approved' | 'plan_rejected', payload: result})
PublishSSE(r) ==
    /\ CanStep(r) /\ req[r].pc = "pub_sse"
    /\ req' = [req EXCEPT ![r] = Advance([req[r] EXCEPT
                 !.sse = Append(req[r].sse, [type |-> EventFor(req[r].op),
                                             payload |-> ResultOf(r)])])]
    /\ UNCHANGED <<tasks, activities, up, wsvars, sidevars>>

\* wsServer.broadcastPlanUpdate({parent_task_id, subtasks, status}): the
\* workspace argument is left to its default; then the 200 response
PublishWS(r) ==
    /\ CanStep(r) /\ req[r].pc = "pub_ws"
    /\ req' = [req EXCEPT ![r] = Advance([req[r] EXCEPT
                 !.ws = Append(req[r].ws,
                               [type |-> "plan_update",
                                parent_task_id |-> req[r].id,
                                subtasks |-> req[r].rows,
                                status |-> ApprovalFor(req[r].op),
                                workspace |-> "default"])])]
    /\ UNCHANGED <<tasks, activities, up, wsvars, sidevars>>

\* ------------------------------------------------------------ environment
\* the handler returns and gives up the thread: its locals are gone, the
\* response is on its way to the caller
Return(r) ==
    /\ CanStep(r) /\ req[r].pc = "respond"
    /\ req' = [req EXCEPT ![r] = [IdleReq EXCEPT
                 !.op = req[r].op, !.id = req[r].id, !.pc = "done",
                 !.status = req[r].status, !.error = req[r].error,
                 !.arrPending = req[r].arrPending]]
    /\ UNCHANGED <<tasks, activities, up, wsvars, sidevars>>

\* the caller has the response
Deliver(r) ==
    /\ up /\ req[r].pc = "done"
    /\ req' = [req EXCEPT ![r] = IdleReq]
    /\ UNCHANGED <<tasks, activities, up, wsvars, sidevars>>

\* the process dies: every request in flight is lost and so is the socket
\* server the process had started; the committed statements stay
Crash ==
    /\ up
    /\ up' = FALSE
    /\ req' = [r \in Slots |-> IdleReq]
    /\ wss' = FALSE
    /\ UNCHANGED <<tasks, activities, clients, clientIdCounter, conn, now,
                   sidevars>>

\* the process is started again: register() of instrumentation.ts, which
\* calls initWebSocket(wsPort), and with it start(port), when NEXT_RUNTIME
\* is 'nodejs'; a port the server refuses leaves it without one
Restart ==
    /\ ~up
    /\ up' = TRUE
    /\ \E nodejs \in BOOLEAN, port \in PortInputs :
         wss' = (wss \/ (nodejs /\ ValidPort(port)))
    /\ UNCHANGED <<tasks, activities, req, clients, clientIdCounter, conn,
                   now, sidevars>>

\* the steps of the callers in C
Step(C) ==
    \/ \E r \in C : ArriveCreatePlan(r)
    \/ \E r \in C : ArriveResolve(r)
    \/ \E r \in C : ResumeCreatePlan(r)
    \/ \E r \in C : ResumeResolve(r)
    \/ \E r \in C : Validate(r)
    \/ \E r \in C : InsertParent(r)
    \/ \E r \in C : InsertChild(r)
    \/ \E r \in C : LogPlan(r)
    \/ \E r \in C : PublishCreated(r)
    \/ \E r \in C : Check(r)
    \/ \E r \in C : WriteParent(r)
    \/ \E r \in C : WriteChildren(r)
    \/ \E r \in C : LogResolve(r)
    \/ \E r \in C : ReadBack(r)
    \/ \E r \in C : PublishSSE(r)
    \/ \E r \in C : PublishWS(r)
    \/ \E r \in C : Return(r)
    \/ \E r \in C : Deliver(r)

Next ==
    \/ Step(Callers)
    \/ Crash
    \/ Restart

Spec == Init /\ [][Next]_vars

\* ------------------------------------------------------------ two callers
\* the table after one createPlan of n subtasks in the default workspace
PlanTable(n) ==
    [t \in TaskIds |->
       IF t = 1 THEN ParentRow(<< >>, "")
       ELSE IF t <= n + 1 THEN ChildRow([tags |-> << >>], t - 2, 1, "")
       ELSE NoTask]

InitRace ==
    /\ \E n \in 1..MaxSubtasks : n + 1 <= MaxTasks /\ tasks = PlanTable(n)
    /\ activities = SetToBag({[task_id |-> 1, type |-> "spawned", n |->
                                Cardinality(ChildrenOf(tasks, 1))]})
    /\ req = [r \in Slots |-> IdleReq]
    /\ up = TRUE
    /\ WsConstructed
    /\ SideConstructed

NextRace ==
    \/ \E r \in Slots : ArriveResolve(r)
    \/ \E r \in Slots : ResumeResolve(r)
    \/ \E r \in Slots : Check(r)
    \/ \E r \in Slots : WriteParent(r)
    \/ \E r \in Slots : WriteChildren(r)
    \/ \E r \in Slots : LogResolve(r)
    \/ \E r \in Slots : ReadBack(r)
    \/ \E r \in Slots : PublishSSE(r)
    \/ \E r \in Slots : PublishWS(r)
    \/ \E r \in Slots : Return(r)
    \/ \E r \in Slots : Deliver(r)

SpecRace == InitRace /\ [][NextRace]_vars

\* ------------------------------------------- subscription socket server
storevars == <<tasks, activities, req, up>>

\* the payload { workspaces: w, tasks: t } of a message, each of the two an
\* array of ids or left out
Lists(w, t) ==
    [given |-> TRUE,
     wKind |-> IF w = {} THEN "absent" ELSE "array", workspaces |-> w,
     tKind |-> IF t = {} THEN "absent" ELSE "array", tasks |-> t]

\* the payloads of the subscribe and unsubscribe messages of a client.
\* They come from the network as JSON.parse leaves them: meant to be
\* { workspaces?: string[]; tasks?: string[] }, a missing list being
\* skipped; but a message can come without a payload, and either field
\* can hold a value that is truthy and has no forEach ("other": a string,
\* a number)
SubscribeInputs ==
    {Lists({"default"}, {}), Lists({"w2"}, {}), Lists({"*"}, {}),
     Lists({}, {1}),
     [Lists({}, {}) EXCEPT !.given = FALSE],
     [Lists({}, {}) EXCEPT !.wKind = "other"],
     [Lists({"w2"}, {}) EXCEPT !.tKind = "other"]}

\* the workspaceId arguments of the broadcast calls
ScopeInputs == {"default", "w2"}

\* clients.set(id, client)
MapSet(m, id, s) ==
    IF \E k \in 1..Len(m) : m[k].id = id
      THEN [k \in 1..Len(m) |->
              IF m[k].id = id THEN [id |-> id, sock |-> s] ELSE m[k]]
      ELSE Append(m, [id |-> id, sock |-> s])

\* clients.delete(id)
MapDelete(m, id) == SelectSeq(m, LAMBDA e : e.id # id)

\* the socket is the ws of a Client in this.clients
Registered(s) == \E k \in 1..Len(clients) : clients[k].sock = s

\* Send that puts the envelope ahead of what is waiting to go out
SendFirst(c, data) ==
    IF c.readyState = "OPEN"
      THEN [c EXCEPT !.inbox = <<data>> \o @]
      ELSE c

\* send(ws, data): if (ws.readyState === WebSocket.OPEN) ws.send(...)
Send(c, data) ==
    IF c.readyState = "OPEN"
      THEN [c EXCEPT !.inbox = Append(@, data)]
      ELSE c

\* one send per socket of the list, in the order of the list
RECURSIVE SendEach(_, _, _)
SendEach(cn, socks, data) ==
    IF socks = << >> THEN cn
    ELSE SendEach([cn EXCEPT ![Head(socks)] = Send(@, data)],
                  Tail(socks), data)

\* Matches without the wildcard
MatchesExact(c, workspaceId) == workspaceId \in c.subscribedWorkspaces

\* client.subscribedWorkspaces.has(workspaceId) ||
\* client.subscribedWorkspaces.has('*')
Matches(c, workspaceId) ==
    \/ workspaceId \in c.subscribedWorkspaces
    \/ "*" \in c.subscribedWorkspaces

\* the sockets this.clients.forEach comes by, in the order of the Map,
\* picking those of S
Picked(S) ==
    LET hit == SelectSeq(clients, LAMBDA e : e.sock \in S)
    IN [k \in 1..Len(hit) |-> hit[k].sock]

\* broadcastToWorkspace(workspaceId, message)
BroadcastToWorkspace(cn, workspaceId, message) ==
    SendEach(cn, Picked({s \in SocketIds : Matches(cn[s], workspaceId)}),
             message)

\* { type, payload, timestamp: new Date().toISOString() }
Envelope(type, task, ts) == [type |-> type, task |-> task, timestamp |-> ts]

\* WsStart that makes a new server, with an empty registry, every time
WsStartAnew(port) ==
    /\ now < MaxNow
    /\ wss' = ValidPort(port)
    /\ clients' = << >>
    /\ UNCHANGED <<clientIdCounter, conn, now, storevars, sidevars>>

\* start(port): if (this.wss) return; this.wss = new WebSocketServer({ port
\* }).  When the constructor throws, this.wss stays null and the exception
\* goes to the caller.
WsStart(port) ==
    /\ now < MaxNow
    /\ wss' = IF wss THEN TRUE ELSE ValidPort(port)
    /\ UNCHANGED <<clients, clientIdCounter, conn, now, storevars, sidevars>>

\* getStats(): the size of the registry, and the port if there is a server
GetStats == [clients |-> Len(clients),
             port |-> IF wss THEN "port" ELSE "null"]

\* startWebSocketServer(port), which initWebSocket(port) calls:
\* if (server.getStats().port === null) try { server.start(port) }
\* catch (e) { console.error(...) }: what start throws is logged, and the
\* server is returned as start left it
StartWebSocketServer(port) ==
    IF GetStats.port = "null"
      THEN WsStart(port)
      ELSE /\ now < MaxNow
           /\ UNCHANGED vars

\* WsStop that also sets the counter back
WsStopAndReset ==
    /\ now < MaxNow
    /\ IF wss
         THEN /\ wss' = FALSE
              /\ clients' = << >>
              /\ clientIdCounter' = 0
              /\ \E terminate \in BOOLEAN :
                   conn' = [s \in SocketIds |->
                     IF terminate /\ conn[s].readyState = "OPEN"
                       THEN [conn[s] EXCEPT !.readyState = "CLOSED"]
                       ELSE conn[s]]
         ELSE UNCHANGED <<wss, clients, clientIdCounter, conn>>
    /\ UNCHANGED <<now, storevars, sidevars>>

\* stop(): if (this.wss) { this.wss.close(); this.wss = null;
\* this.clients.clear() }.  Whether wss.close() also terminates the sockets
\* that are connected depends on the release of the ws package; the
\* handlers of a socket stay on it either way.
WsStop ==
    /\ now < MaxNow
    /\ IF wss
         THEN /\ wss' = FALSE
              /\ clients' = << >>
              /\ \E terminate \in BOOLEAN :
                   conn' = [s \in SocketIds |->
                     IF terminate /\ conn[s].readyState = "OPEN"
                       THEN [conn[s] EXCEPT !.readyState = "CLOSED"]
                       ELSE conn[s]]
         ELSE UNCHANGED <<wss, clients, conn>>
    /\ UNCHANGED <<clientIdCounter, now, storevars, sidevars>>

\* wss.on('connection'): a new Client under `client_${++clientIdCounter}`,
\* subscribed to 'default'; the welcome message.  Sockets that have not
\* connected yet are interchangeable: the least of them connects.
Connect(s) ==
    /\ now < MaxNow
    /\ wss /\ conn[s].readyState = "NONE"
    /\ \A o \in SocketIds : o < s => conn[o].readyState # "NONE"
    /\ LET clientId == clientIdCounter + 1
       IN /\ clientIdCounter' = clientId
          /\ clients' = MapSet(clients, clientId, s)
          /\ conn' = [conn EXCEPT ![s] = Send(
                        [readyState |-> "OPEN", id |-> clientId,
                         subscribedWorkspaces |-> {"default"},
                         subscribedTasks |-> {}, inbox |-> << >>],
                        [type |-> "connected", clientId |-> clientId])]
    /\ UNCHANGED <<wss, now, storevars, sidevars>>

\* handleSubscribe(client, payload), inside the try of ws.on('message'):
\* its statements up to the first that throws (payload.workspaces of a
\* missing payload, forEach of a value that has none), which the catch of
\* the message handler logs; the reply is the last statement
HandleSubscribe(c, payload) ==
    IF ~payload.given \/ payload.wKind = "other"
      THEN c
      ELSE LET w == [c EXCEPT
                       !.subscribedWorkspaces = @ \cup payload.workspaces]
               d == [w EXCEPT !.subscribedTasks = @ \cup payload.tasks]
           IN IF payload.tKind = "other"
                THEN w
                ELSE Send(d, [type |-> "subscribed",
                              workspaces |-> d.subscribedWorkspaces,
                              tasks |-> d.subscribedTasks])

\* handleUnsubscribe(client, payload), inside the same try
HandleUnsubscribe(c, payload) ==
    IF ~payload.given \/ payload.wKind = "other"
      THEN c
      ELSE LET w == [c EXCEPT
                       !.subscribedWorkspaces = @ \ payload.workspaces]
           IN IF payload.tKind = "other"
                THEN w
                ELSE [w EXCEPT !.subscribedTasks = @ \ payload.tasks]

\* ws.on('message') with a subscribe message: try { handleMessage(client,
\* ...) } catch (err) { console.error(...) }, on the Client the handler
\* has held since the connection
Subscribe(s) ==
    /\ conn[s].readyState = "OPEN" /\ now < MaxNow
    /\ \E p \in SubscribeInputs :
         conn' = [conn EXCEPT ![s] = HandleSubscribe(@, p)]
    /\ now' = now + 1
    /\ UNCHANGED <<wss, clients, clientIdCounter, storevars, sidevars>>

\* ws.on('message') with an unsubscribe message
Unsubscribe(s) ==
    /\ conn[s].readyState = "OPEN" /\ now < MaxNow
    /\ \E p \in SubscribeInputs :
         conn' = [conn EXCEPT ![s] = HandleUnsubscribe(@, p)]
    /\ now' = now + 1
    /\ UNCHANGED <<wss, clients, clientIdCounter, storevars, sidevars>>

\* the peer is gone: the socket is no longer OPEN, its close event is yet
\* to be handled
SocketCloses(s) ==
    /\ now < MaxNow
    /\ conn[s].readyState = "OPEN"
    /\ conn' = [conn EXCEPT ![s].readyState = "CLOSED"]
    /\ UNCHANGED <<wss, clients, clientIdCounter, now, storevars, sidevars>>

\* ws.on('close'): this.clients.delete(clientId)
OnClose(s) ==
    /\ now < MaxNow
    /\ conn[s].readyState = "CLOSED"
    /\ clients' = MapDelete(clients, conn[s].id)
    /\ UNCHANGED <<wss, clientIdCounter, conn, now, storevars, sidevars>>

\* OnError that only logs
OnErrorLogOnly(s) ==
    /\ now < MaxNow
    /\ conn[s].readyState \in {"OPEN", "CLOSED"}
    /\ conn' = [conn EXCEPT ![s].readyState = "CLOSED"]
    /\ UNCHANGED <<wss, clients, clientIdCounter, now, storevars, sidevars>>

\* ws.on('error'): this.clients.delete(clientId); a socket that fails is
\* no longer OPEN
OnError(s) ==
    /\ now < MaxNow
    /\ conn[s].readyState \in {"OPEN", "CLOSED"}
    /\ conn' = [conn EXCEPT ![s].readyState = "CLOSED"]
    /\ clients' = MapDelete(clients, conn[s].id)
    /\ UNCHANGED <<wss, clientIdCounter, now, storevars, sidevars>>

\* broadcastTaskUpdate(update, workspaceId = 'default')
BroadcastTaskUpdate(t, workspaceId) ==
    /\ now < MaxNow
    /\ now' = now + 1
    /\ conn' = BroadcastToWorkspace(conn, workspaceId,
                                    Envelope("task_update", t, now'))
    /\ UNCHANGED <<wss, clients, clientIdCounter, storevars, sidevars>>

\* broadcastPlanUpdate(update, workspaceId = 'default')
BroadcastPlanUpdate(t, workspaceId) ==
    /\ now < MaxNow
    /\ now' = now + 1
    /\ conn' = BroadcastToWorkspace(conn, workspaceId,
                                    Envelope("plan_update", t, now'))
    /\ UNCHANGED <<wss, clients, clientIdCounter, storevars, sidevars>>

\* broadcastApprovalRequest(taskId, agentId, planSummary, subtasks,
\* workspaceId = 'default')
BroadcastApprovalRequest(t, workspaceId) ==
    /\ now < MaxNow
    /\ now' = now + 1
    /\ conn' = BroadcastToWorkspace(conn, workspaceId,
                                    Envelope("approval_request", t, now'))
    /\ UNCHANGED <<wss, clients, clientIdCounter, storevars, sidevars>>

\* broadcastProgress(taskId, ...): the clients subscribed to the task, then
\* broadcastToWorkspace('default', message)
BroadcastProgress(t) ==
    /\ now < MaxNow
    /\ now' = now + 1
    /\ LET message == Envelope("progress_update", t, now')
           first == SendEach(conn,
                       Picked({s \in SocketIds : t \in conn[s].subscribedTasks}),
                       message)
       IN conn' = BroadcastToWorkspace(first, "default", message)
    /\ UNCHANGED <<wss, clients, clientIdCounter, storevars, sidevars>>

\* BroadcastAll with a send that does not test the readyState
BroadcastAllUnchecked ==
    /\ now < MaxNow
    /\ now' = now + 1
    /\ conn' = [s \in SocketIds |->
                 IF Registered(s)
                   THEN [conn[s] EXCEPT !.inbox =
                           Append(@, Envelope("notice", 0, now'))]
                   ELSE conn[s]]
    /\ UNCHANGED <<wss, clients, clientIdCounter, storevars, sidevars>>

\* broadcastAll(message)
BroadcastAll ==
    /\ now < MaxNow
    /\ now' = now + 1
    /\ conn' = SendEach(conn, Picked(SocketIds), Envelope("notice", 0, now'))
    /\ UNCHANGED <<wss, clients, clientIdCounter, storevars, sidevars>>

InitWS ==
    /\ tasks = [t \in TaskIds |-> NoTask]
    /\ activities = EmptyBag
    /\ req = [r \in Slots |-> IdleReq]
    /\ up = TRUE
    /\ WsConstructed
    /\ SideConstructed

NextWS ==
    \/ \E port \in PortInputs : WsStart(port)
    \/ \E port \in PortInputs : StartWebSocketServer(port)
    \/ WsStop
    \/ \E s \in SocketIds : Connect(s)
    \/ \E s \in SocketIds : Subscribe(s)
    \/ \E s \in SocketIds : Unsubscribe(s)
    \/ \E s \in SocketIds : SocketCloses(s)
    \/ \E s \in SocketIds : OnClose(s)
    \/ \E s \in SocketIds : OnError(s)
    \/ \E t \in WatchedTasks, w \in ScopeInputs : BroadcastTaskUpdate(t, w)
    \/ \E t \in WatchedTasks, w \in ScopeInputs : BroadcastPlanUpdate(t, w)
    \/ \E t \in WatchedTasks, w \in ScopeInputs :
          BroadcastApprovalRequest(t, w)
    \/ \E t \in WatchedTasks : BroadcastProgress(t)
    \/ BroadcastAll

SpecWS == InitWS /\ [][NextWS]_vars

\* ------------------------------------------------------------ push stream
\* the store as the handlers find it when nothing has been planned
StoreEmpty ==
    /\ tasks = [t \in TaskIds |-> NoTask]
    /\ activities = EmptyBag
    /\ req = [r \in Slots |-> IdleReq]
    /\ up = TRUE

\* controller.enqueue(chunk) raises unless the stream is readable
Enqueues(st) == st.state = "readable"

\* GET /api/events/stream, the start(controller) of its ReadableStream:
\* registerClient(controller), the connected frame, setInterval.  Streams
\* that are not open yet are interchangeable: the least of them is opened.
OpenStream(s) ==
    /\ stream[s].state = "NONE"
    /\ \A o \in StreamIds : o < s => stream[o].state # "NONE"
    /\ sseClients' = sseClients \cup {s}
    /\ stream' = [stream EXCEPT ![s] =
                    [state |-> "readable", pingInterval |-> TRUE,
                     aborted |-> FALSE, frames |-> <<"connected">>]]
    /\ UNCHANGED <<storevars, wsvars, migvars, hookvars>>

\* the consumer of the response body cancels it: cancel() does nothing, and
\* the controller takes no more chunks
CancelStream(s) ==
    /\ stream[s].state = "readable"
    /\ stream' = [stream EXCEPT ![s].state = "cancelled"]
    /\ UNCHANGED <<sseClients, storevars, wsvars, migvars, hookvars>>

\* the pingInterval callback: try { enqueue(ping) } catch
\* { clearInterval(pingInterval) }
Ping(s) ==
    /\ stream[s].pingInterval
    /\ IF Enqueues(stream[s])
         THEN /\ Len(stream[s].frames) < MaxFrames
              /\ stream' = [stream EXCEPT ![s].frames = Append(@, "ping")]
         ELSE stream' = [stream EXCEPT ![s].pingInterval = FALSE]
    /\ UNCHANGED <<sseClients, storevars, wsvars, migvars, hookvars>>

\* AbortStream that leaves the controller in the registry
AbortStreamStaysRegistered(s) ==
    /\ stream[s].state # "NONE" /\ ~stream[s].aborted
    /\ stream' = [stream EXCEPT ![s] =
                    [@ EXCEPT !.pingInterval = FALSE, !.aborted = TRUE,
                              !.state = IF Enqueues(stream[s]) THEN "closed"
                                        ELSE @]]
    /\ UNCHANGED <<sseClients, storevars, wsvars, migvars, hookvars>>

\* the abort listener of request.signal: clearInterval(pingInterval),
\* unregisterClient(controller), try { controller.close() } catch {}
AbortStream(s) ==
    /\ stream[s].state # "NONE" /\ ~stream[s].aborted
    /\ sseClients' = sseClients \ {s}
    /\ stream' = [stream EXCEPT ![s] =
                    [@ EXCEPT !.pingInterval = FALSE, !.aborted = TRUE,
                              !.state = IF Enqueues(stream[s]) THEN "closed"
                                        ELSE @]]
    /\ UNCHANGED <<storevars, wsvars, migvars, hookvars>>

\* broadcast(event) of lib/events: the frame is enqueued on every
\* registered controller, and one whose enqueue raises is dropped from the
\* registry
BroadcastEvent ==
    /\ \A s \in sseClients :
         Enqueues(stream[s]) => Len(stream[s].frames) < MaxFrames
    /\ \E s \in sseClients : TRUE
    /\ stream' = [s \in StreamIds |->
                    IF s \in sseClients /\ Enqueues(stream[s])
                      THEN [stream[s] EXCEPT !.frames = Append(@, "event")]
                      ELSE stream[s]]
    /\ sseClients' = {s \in sseClients : Enqueues(stream[s])}
    /\ UNCHANGED <<storevars, wsvars, migvars, hookvars>>

InitSSE == StoreEmpty /\ WsConstructed /\ SideConstructed

NextSSE ==
    \/ \E s \in StreamIds : OpenStream(s)
    \/ \E s \in StreamIds : CancelStream(s)
    \/ \E s \in StreamIds : Ping(s)
    \/ \E s \in StreamIds : AbortStream(s)
    \/ BroadcastEvent

SpecSSE == InitSSE /\ [][NextSSE]_vars

\* ------------------------------------------------------------- migrations
\* SELECT id FROM _migrations, as a set
LedgerIds(d) == {d.ledger[k] : k \in 1..Len(d.ledger)}

\* Commits for a ledger without a primary key
CommitsAnyRow(d, m, upFails) == ~upFails

\* the transaction commits: up(db) returns and the INSERT INTO _migrations
\* meets no row of the same id (id is the primary key)
Commits(d, m, upFails) == ~upFails /\ m \notin LedgerIds(d)

\* Transaction that keeps the changes of up(db) when it does not commit
TransactionKeepsChanges(d, m, upFails) ==
    LET changed == [d EXCEPT !.schema = Append(@, m)]
    IN IF Commits(d, m, upFails)
         THEN [changed EXCEPT !.ledger = Append(@, m)]
         ELSE changed

\* db.transaction(() => { migration.up(db); INSERT INTO _migrations })():
\* the changes of up(db) and the row, or neither
Transaction(d, m, upFails) ==
    LET changed == [d EXCEPT !.schema = Append(@, m)]
    IN IF Commits(d, m, upFails)
         THEN [changed EXCEPT !.ledger = Append(@, m)]
         ELSE d

\* runMigrations(db) up to its loop: CREATE TABLE IF NOT EXISTS
\* _migrations, and the set of the ids that are applied
BeginRun(p) ==
    /\ run[p].pc = "idle"
    /\ run' = [run EXCEPT ![p] = [pc |-> "loop", applied |-> LedgerIds(db),
                                  i |-> 1]]
    /\ UNCHANGED <<db, storevars, wsvars, ssevars, hookvars>>

\* one turn of `for (const migration of migrations)`: continue if the id
\* is in applied, else the transaction, whose error is thrown again
Migrate(p) ==
    /\ run[p].pc = "loop" /\ run[p].i <= Len(Migrations)
    /\ LET m == Migrations[run[p].i]
       IN IF m \in run[p].applied
            THEN /\ run' = [run EXCEPT ![p].i = @ + 1]
                 /\ UNCHANGED db
            ELSE \E upFails \in BOOLEAN :
                   /\ db' = Transaction(db, m, upFails)
                   /\ run' = [run EXCEPT ![p] =
                                IF Commits(db, m, upFails)
                                  THEN [@ EXCEPT !.i = @ + 1]
                                  ELSE [@ EXCEPT !.pc = "threw"]]
    /\ UNCHANGED <<storevars, wsvars, ssevars, hookvars>>

\* the loop is through: runMigrations returns
FinishRun(p) ==
    /\ run[p].pc = "loop" /\ run[p].i > Len(Migrations)
    /\ run' = [run EXCEPT ![p].pc = "done"]
    /\ UNCHANGED <<db, storevars, wsvars, ssevars, hookvars>>

\* the caller has the result or the error of the call
EndRun(p) ==
    /\ run[p].pc \in {"done", "threw"}
    /\ run' = [run EXCEPT ![p] = IdleRun]
    /\ UNCHANGED <<db, storevars, wsvars, ssevars, hookvars>>

InitMig == StoreEmpty /\ WsConstructed /\ SideConstructed

NextMig ==
    \/ \E p \in Processes : BeginRun(p)
    \/ \E p \in Processes : Migrate(p)
    \/ \E p \in Processes : FinishRun(p)
    \/ \E p \in Processes : EndRun(p)

SpecMig == InitMig /\ [][NextMig]_vars

\* ------------------------------------------------------------ client hook
\* the refs and the sockets of the hook, as one value the callbacks change
HookState == [hook |-> hook, sock |-> sock, timer |-> timer]

\* the WebSocket objects that are not made yet
FreeSocks(st) == {k \in HookSockets : st.sock[k].readyState = "NONE"}

\* new WebSocket(url) takes the url: it raises a SyntaxError for a url
\* that does not parse or is not a ws: or wss: one
Parses(url) == url.scheme \in {"ws", "wss"}

\* connect(), of the render whose url and workspaceId are d and url:
\* if (wsRef.current?.readyState === WebSocket.OPEN) return;
\* try { const ws = new WebSocket(url); wsRef.current = ws; ... }
\* catch (err) { setState(... error ...) }
\* When the constructor raises, the references and the sockets stay as
\* they are.
connect(st, d, url) ==
    IF st.hook.wsRef # 0 /\ st.sock[st.hook.wsRef].readyState = "OPEN"
      THEN st
    ELSE IF ~Parses(url)
      THEN st
      ELSE LET k == CHOOSE f \in FreeSocks(st) :
                      \A o \in FreeSocks(st) : f <= o
           IN [st EXCEPT !.hook.wsRef = k,
                         !.sock[k] = [readyState |-> "CONNECTING",
                                      deps |-> d, url |-> url]]

\* when connect() makes a WebSocket, there is one left to make
CanConnect(st, url) ==
    \/ st.hook.wsRef # 0 /\ st.sock[st.hook.wsRef].readyState = "OPEN"
    \/ ~Parses(url)
    \/ FreeSocks(st) # {}

\* ws.close()
Closing(c) ==
    IF c.readyState \in {"CONNECTING", "OPEN"}
      THEN [c EXCEPT !.readyState = "CLOSING"]
      ELSE c

\* the cleanup of the effect: clearTimeout(reconnectTimeoutRef.current) if
\* it is set, wsRef.current.close() if it is set
cleanup(st) ==
    LET cleared == IF st.hook.reconnectTimeoutRef # 0
                     THEN st.timer \ {st.hook.reconnectTimeoutRef}
                     ELSE st.timer
        closed == IF st.hook.wsRef # 0
                    THEN [st.sock EXCEPT ![st.hook.wsRef] = Closing(@)]
                    ELSE st.sock
    IN [st EXCEPT !.timer = cleared, !.sock = closed]

\* the state after a callback
Becomes(st) ==
    /\ hook' = st.hook
    /\ sock' = st.sock
    /\ timer' = st.timer

\* the effect of the first render: connect()
MountEffect ==
    /\ hook.phase = "initial"
    /\ \E url \in UrlInputs :
         /\ CanConnect(HookState, url)
         /\ Becomes(connect([HookState EXCEPT !.hook.phase = "mounted"],
                            hook.deps, url))
    /\ UNCHANGED <<storevars, wsvars, ssevars, migvars>>

\* url or workspaceId changes: connect is a new callback, so the cleanup
\* of the old effect runs and then the effect of the new render
ChangeDeps ==
    /\ hook.phase = "mounted" /\ hook.deps < MaxDeps
    /\ LET cleaned == cleanup(HookState)
           next == [cleaned EXCEPT !.hook.deps = @ + 1]
       IN \E url \in UrlInputs :
            /\ CanConnect(next, url)
            /\ Becomes(connect(next, next.hook.deps, url))
    /\ UNCHANGED <<storevars, wsvars, ssevars, migvars>>

\* the component unmounts: the cleanup of the effect
Unmount ==
    /\ hook.phase = "mounted"
    /\ Becomes(cleanup([HookState EXCEPT !.hook.phase = "unmounted"]))
    /\ UNCHANGED <<storevars, wsvars, ssevars, migvars>>

\* ws.onopen: the connection is made (setState, and the subscribe message)
SockOpens(k) ==
    /\ sock[k].readyState = "CONNECTING"
    /\ sock' = [sock EXCEPT ![k].readyState = "OPEN"]
    /\ UNCHANGED <<hook, timer, storevars, wsvars, ssevars, migvars>>

\* ws.onclose, when the connection is closed by either side or has failed:
\* wsRef.current = null; reconnectTimeoutRef.current = setTimeout(() =>
\* connect(), 3000).  The timer is named after the socket.
SockCloses(k) ==
    /\ sock[k].readyState \in {"CONNECTING", "OPEN", "CLOSING"}
    /\ sock' = [sock EXCEPT ![k].readyState = "CLOSED"]
    /\ hook' = [hook EXCEPT !.wsRef = 0, !.reconnectTimeoutRef = k]
    /\ timer' = timer \cup {k}
    /\ UNCHANGED <<storevars, wsvars, ssevars, migvars>>

\* the 3 seconds of a reconnect timer are over: connect(), of the render
\* that made the socket
TimerFires(k) ==
    /\ k \in timer
    /\ LET fired == [HookState EXCEPT !.timer = @ \ {k}]
       IN /\ CanConnect(fired, sock[k].url)
          /\ Becomes(connect(fired, sock[k].deps, sock[k].url))
    /\ UNCHANGED <<storevars, wsvars, ssevars, migvars>>

InitHook == StoreEmpty /\ WsConstructed /\ SideConstructed

NextHook ==
    \/ MountEffect
    \/ ChangeDeps
    \/ Unmount
    \/ \E k \in HookSockets : SockOpens(k)
    \/ \E k \in HookSockets : SockCloses(k)
    \/ \E k \in HookSockets : TimerFires(k)

SpecHook == InitHook /\ [][NextHook]_vars

\* ================================================================ claims
IsResolve(q) == q.op \in {"approve", "reject"}

\* the handler of slot r has run to its return statement
AtReturn(r) == req[r].pc = "respond"

\* the tasks that are part of plan p: the parent and its children
PlanOf(tbl, p) == {p} \cup ChildrenOf(tbl, p)

\* in every state: a call on a task that is not pending is refused and has
\* written nothing
C1_StoreUntouched ==
    \A r \in Slots :
        (/\ AtReturn(r) /\ IsResolve(req[r])
         /\ req[r].pre.tasks[req[r].id] # NoTask
         /\ req[r].pre.tasks[req[r].id].approval # "pending")
        => /\ req[r].status = 400
           /\ req[r].error = "Task plan is not pending approval"
           /\ tasks = req[r].pre.tasks
           /\ activities = req[r].pre.activities

\* in every step: a parent record that is not pending keeps its approval
\* status
C1_ResolvedStays ==
    \A t \in TaskIds :
        (tasks[t] # NoTask /\ tasks[t].parent = 0
         /\ tasks[t].approval # "pending")
        => tasks'[t].approval = tasks[t].approval

\* C1: approve or reject on a task that exists and whose approval status is
\* not pending (approved, rejected, or none at all) returns the invalid-state
\* error and leaves the tasks and the activities as they were before the
\* call; and the approval status of a parent record, once it is not pending,
\* never changes again.
C1_OneShot == [](C1_StoreUntouched) /\ [][C1_ResolvedStays]_vars

\* C2: whenever a createPlan, approve or reject call returns successfully,
\* every child task has the approval status and the coarse status of its
\* parent.
C2_ChildrenTrackParent ==
    \A r \in Slots :
        (AtReturn(r) /\ req[r].status = 200)
        => \A c \in TaskIds :
             (tasks[c] # NoTask /\ tasks[c].parent # 0
              /\ tasks[tasks[c].parent] # NoTask)
             => /\ tasks[c].approval = tasks[tasks[c].parent].approval
                /\ tasks[c].status = tasks[tasks[c].parent].status

\* C3: while the process is down after a crash, the table never holds a
\* parent that is approved or rejected with a child that is still pending.
C3_CrashLeavesNoHalfPlan ==
    ~up => \A c \in TaskIds :
             (tasks[c] # NoTask /\ tasks[c].parent # 0
              /\ tasks[tasks[c].parent] # NoTask
              /\ tasks[tasks[c].parent].approval \in {"approved", "rejected"})
             => tasks[c].approval # "pending"

\* two calls for the same task were both in flight while it was pending,
\* and both have returned
Raced(a, b) ==
    /\ a # b
    /\ req[a].pc = "done" /\ req[b].pc = "done"
    /\ IsResolve(req[a]) /\ IsResolve(req[b])
    /\ req[a].id = req[b].id
    /\ req[a].arrPending /\ req[b].arrPending

\* C4: of two approve/reject calls that were in flight together for the same
\* pending task, exactly one succeeds, the other gets the invalid-state
\* error, and every record of the plan has the approval status the winner
\* set (the plan is applied once, and none of its records is left with
\* another status).
C4_OneWinner ==
    \A a, b \in Slots :
        Raced(a, b)
        => \E w, l \in {a, b} :
             /\ w # l
             /\ req[w].status = 200
             /\ req[l].status = 400
             /\ req[l].error = "Task plan is not pending approval"
             /\ \A t \in PlanOf(tasks, req[w].id) :
                  tasks[t].approval = ApprovalFor(req[w].op)

\* C5: when an approve of task p returns successfully, p and its k children
\* (k+1 records) are approved and in the inbox, the children of p are those
\* it had before the call, and every other record is as it was before the
\* call.
C5_ApproveCascade ==
    \A r \in Slots :
        (AtReturn(r) /\ req[r].op = "approve" /\ req[r].status = 200)
        => LET before == req[r].pre.tasks
               plan == PlanOf(before, req[r].id)
           IN /\ before[req[r].id] # NoTask
              /\ \A t \in plan : /\ tasks[t].approval = "approved"
                                 /\ tasks[t].status = "inbox"
              /\ \A t \in TaskIds \ plan : tasks[t] = before[t]
              /\ PlanOf(tasks, req[r].id) = plan

\* an approve of a plan with children returns successfully while the table
\* holds a record that is not part of the plan
C5_Witness ==
    \E r \in Slots :
        /\ AtReturn(r) /\ req[r].op = "approve" /\ req[r].status = 200
        /\ ChildrenOf(tasks, req[r].id) # {}
        /\ \E t \in TaskIds \ PlanOf(tasks, req[r].id) : tasks[t] # NoTask

\* C6: when a reject of task p returns successfully, p and all its children
\* are rejected and blocked, the call has published exactly one push-stream
\* event, of type plan_rejected, and exactly one socket broadcast, a
\* plan_update for p with status rejected whose subtasks are exactly the
\* children of p.
C6_RejectCascade ==
    \A r \in Slots :
        (AtReturn(r) /\ req[r].op = "reject" /\ req[r].status = 200)
        => /\ \A t \in PlanOf(tasks, req[r].id) :
                tasks[t].approval = "rejected" /\ tasks[t].status = "blocked"
           /\ Len(req[r].sse) = 1
           /\ req[r].sse[1].type = "plan_rejected"
           /\ req[r].sse[1].payload.parent.id = req[r].id
           /\ Len(req[r].ws) = 1
           /\ req[r].ws[1].type = "plan_update"
           /\ req[r].ws[1].parent_task_id = req[r].id
           /\ req[r].ws[1].status = "rejected"
           /\ {req[r].ws[1].subtasks[k].id :
                 k \in 1..Len(req[r].ws[1].subtasks)}
                = ChildrenOf(tasks, req[r].id)
           /\ Len(req[r].ws[1].subtasks)
                = Cardinality(ChildrenOf(tasks, req[r].id))

\* a reject of a plan with two children returns successfully
C6_Witness ==
    \E r \in Slots :
        /\ AtReturn(r) /\ req[r].op = "reject" /\ req[r].status = 200
        /\ Cardinality(ChildrenOf(tasks, req[r].id)) = 2

\* what the event e says is what the table holds
Reflected(e) ==
    /\ tasks[e.payload.parent.id] # NoTask
    /\ View(e.payload.parent.id, tasks[e.payload.parent.id]) = e.payload.parent
    /\ \A k \in 1..Len(e.payload.subtasks) :
         LET v == e.payload.subtasks[k]
         IN tasks[v.id] # NoTask /\ View(v.id, tasks[v.id]) = v
    /\ e.type = "plan_approved" =>
         \A t \in PlanOf(tasks, e.payload.parent.id) :
            tasks[t].approval = "approved"
    /\ e.type = "plan_rejected" =>
         \A t \in PlanOf(tasks, e.payload.parent.id) :
            tasks[t].approval = "rejected"
    /\ \E a \in BagToSet(activities) : a.task_id = e.payload.parent.id

\* what the socket message m says is what the table holds
ReflectedWS(m) ==
    /\ tasks[m.parent_task_id] # NoTask
    /\ tasks[m.parent_task_id].approval = m.status
    /\ \A k \in 1..Len(m.subtasks) :
         /\ tasks[m.subtasks[k].id] = m.subtasks[k].row
         /\ m.subtasks[k].row.approval = m.status
    /\ {m.subtasks[k].id : k \in 1..Len(m.subtasks)}
         = ChildrenOf(tasks, m.parent_task_id)

\* C7, in every state: what a running handler has published so far is
\* reflected by the table
C7_PublishedIsStored ==
    \A r \in Slots :
        /\ \A k \in 1..Len(req[r].sse) : Reflected(req[r].sse[k])
        /\ \A k \in 1..Len(req[r].ws) : ReflectedWS(req[r].ws[k])

\* C7, in every step: a handler that has published writes no more
C7_NoWriteAfterPublish ==
    (tasks' # tasks \/ activities' # activities)
    => \A r \in Slots : req[r].sse = << >> /\ req[r].ws = << >>

\* C7: for createPlan, approve and reject, every write of the call to the
\* tasks and the activities is done before the call publishes on either
\* transport: what it has published is in the table, and once it has
\* published it writes nothing more.
C7_StoreBeforePublish ==
    [](C7_PublishedIsStored) /\ [][C7_NoWriteAfterPublish]_vars

\* an approve has published on both transports, its children in the
\* envelope, and is at its return
C7_Witness ==
    \E r \in Slots :
        /\ AtReturn(r) /\ req[r].op = "approve"
        /\ Len(req[r].sse) = 1 /\ Len(req[r].ws) = 1
        /\ Len(req[r].ws[1].subtasks) >= 1

\* C8: a createPlan, approve or reject call that returns an error (invalid
\* input, unknown id, task not pending, failed store statement) has
\* published nothing on either transport.
C8_FailureIsSilent ==
    \A r \in Slots :
        (AtReturn(r) /\ req[r].status # 200)
        => req[r].sse = << >> /\ req[r].ws = << >>

\* a store statement failed in a call after its earlier writes went through
C8_Witness ==
    \E r \in Slots :
        /\ AtReturn(r) /\ req[r].status = 500
        /\ tasks # req[r].pre.tasks

\* C9: a createPlan whose body has no subtasks (none given, or a value
\* that holds no draft) returns the validation error 400, and the tasks and
\* the activities are as they were before the call.
C9_EmptyPlanRefused ==
    \A r \in Slots :
        (AtReturn(r) /\ req[r].op = "createPlan"
         /\ (~req[r].hasSubs \/ Len(req[r].subs) = 0))
        => /\ req[r].status = 400
           /\ req[r].error \in {"At least one subtask is required",
                                "Parent task title is required"}
           /\ tasks = req[r].pre.tasks
           /\ activities = req[r].pre.activities

\* the elements of a list
Range(list) == {list[k] : k \in 1..Len(list)}

\* C10: when a createPlan with an array of n subtasks returns successfully,
\* n >= 1; the parent and the n children have ids that were not in the
\* table before and
\* differ from each other; all n+1 rows are pending / pending_approval; child
\* i (0-based, in the order of the body) has position i and the parent's id
\* as parent; every row has the agentic tag and the tags its draft came
\* with; the parent has no parent; no other row differs from before; and the
\* activities are those from before plus one row, for the parent.
C10_PlanStored ==
    \A r \in Slots :
        (AtReturn(r) /\ req[r].op = "createPlan" /\ req[r].status = 200
         /\ req[r].isArray)
        => LET before == req[r].pre.tasks
               p == req[r].parentId
               n == Len(req[r].subs)
               kid(i) == req[r].kids[i + 1].id
               new == {p} \cup {kid(i) : i \in 0..(n - 1)}
           IN /\ n >= 1 /\ Len(req[r].kids) = n
              /\ Cardinality(new) = n + 1
              /\ \A t \in new : /\ before[t] = NoTask
                                /\ tasks[t].approval = "pending"
                                /\ tasks[t].status = "pending_approval"
                                /\ "agentic" \in Range(Parse(tasks[t].tags))
              /\ tasks[p].parent = 0
              /\ Range(req[r].ptags) \subseteq Range(Parse(tasks[p].tags))
              /\ \A i \in 0..(n - 1) :
                   /\ tasks[kid(i)].sort_order = i
                   /\ tasks[kid(i)].parent = p
                   /\ Range(req[r].subs[i + 1].tags)
                        \subseteq Range(Parse(tasks[kid(i)].tags))
              /\ \A t \in TaskIds \ new : tasks[t] = before[t]
              /\ \E a \in BagToSet(activities) :
                   /\ a.task_id = p
                   /\ activities = req[r].pre.activities (+) SetToBag({a})

\* a createPlan of two tagged subtasks returns successfully
C10_Witness ==
    \E r \in Slots :
        /\ AtReturn(r) /\ req[r].op = "createPlan" /\ req[r].status = 200
        /\ Len(req[r].subs) = 2
        /\ req[r].ptags # << >>

\* C11: every createPlan that succeeds has published the new plan on both
\* transports: a plan_created event on the push stream and an envelope on
\* the subscription socket.
C11_CreatedOnBothTransports ==
    \A r \in Slots :
        (AtReturn(r) /\ req[r].op = "createPlan" /\ req[r].status = 200)
        => /\ \E k \in 1..Len(req[r].sse) : req[r].sse[k].type = "plan_created"
           /\ req[r].ws # << >>

\* C12: the plan_update broadcast of a successful approve or reject of a
\* plan that lives in workspace W is scoped to W: whatever the workspace
\* filter of a connection, the broadcast selects the connection exactly
\* when the filter contains W or the wildcard '*'.
C12_UpdateScopedToPlanWorkspace ==
    \A r \in Slots : \A k \in 1..Len(req[r].ws) :
        LET m == req[r].ws[k]
            W == tasks[m.parent_task_id].workspace
        IN \A F \in SUBSET WorkspaceNames :
             Matches([subscribedWorkspaces |-> F], m.workspace)
               <=> (W \in F \/ "*" \in F)

\* C13: while a plan_update envelope of approve or reject is out and its
\* handler has not returned, its subtasks array is the store's children of
\* that parent id: the same ids, each once, in the order of their
\* positions, each with the field values of its row.
C13_UpdateCarriesStoredChildren ==
    \A r \in Slots : \A k \in 1..Len(req[r].ws) :
        LET m == req[r].ws[k]
            n == Len(m.subtasks)
        IN /\ {m.subtasks[j].id : j \in 1..n}
                = ChildrenOf(tasks, m.parent_task_id)
           /\ n = Cardinality(ChildrenOf(tasks, m.parent_task_id))
           /\ \A j \in 1..n : m.subtasks[j].row = tasks[m.subtasks[j].id]
           /\ \A i, j \in 1..n :
                i < j => m.subtasks[i].row.sort_order
                           < m.subtasks[j].row.sort_order

\* a plan_update with two subtasks, in positions 0 and 1, is out
C13_Witness ==
    \E r \in Slots :
        /\ req[r].pc = "respond" /\ req[r].status = 200
        /\ Len(req[r].ws) = 1
        /\ Len(req[r].ws[1].subtasks) = 2
        /\ req[r].ws[1].subtasks[1].row.sort_order = 0
        /\ req[r].ws[1].subtasks[2].row.sort_order = 1

\* ------------------------------------------------- subscription socket
\* the connection of socket s is in the registry and its socket is open
Live(s) == Registered(s) /\ conn[s].readyState = "OPEN"

\* the types of the envelopes the broadcast calls make
BroadcastTypes == {"task_update", "plan_update", "approval_request",
                   "progress_update", "notice"}

\* the broadcast envelopes socket s has been sent, in the order sent
BroadcastsIn(inbox) == SelectSeq(inbox, LAMBDA m : m.type \in BroadcastTypes)
Broadcasts(s) == BroadcastsIn(conn[s].inbox)

\* this step sends socket s exactly one envelope, of the call made now
GetsOne(s) ==
    /\ Len(conn'[s].inbox) = Len(conn[s].inbox) + 1
    /\ conn'[s] = [conn[s] EXCEPT !.inbox = conn'[s].inbox]
    /\ SubSeq(conn'[s].inbox, 1, Len(conn[s].inbox)) = conn[s].inbox
    /\ conn'[s].inbox[Len(conn'[s].inbox)].type \in BroadcastTypes
    /\ conn'[s].inbox[Len(conn'[s].inbox)].timestamp = now'

\* C14, the broadcasts: a workspace-scoped broadcast for W sends its envelope
\* to a live connection if and only if W or '*' is in the connection's
\* workspace filter, whatever its task filter holds
C14_ByWorkspaceOnly ==
    \A t \in WatchedTasks, W \in ScopeInputs :
        (BroadcastTaskUpdate(t, W) \/ BroadcastPlanUpdate(t, W)
           \/ BroadcastApprovalRequest(t, W))
        => \A s \in SocketIds : Live(s) =>
             IF W \in conn[s].subscribedWorkspaces
                  \/ "*" \in conn[s].subscribedWorkspaces
               THEN GetsOne(s)
               ELSE conn'[s] = conn[s]

\* C14, the filters: the two filter sets of a connection are {default} and
\* {} when it connects, grow by the ids of a subscribe message, shrink by
\* the ids of an unsubscribe message and change in no other step
C14_FiltersFollowMessages ==
    \A s \in SocketIds :
       LET w == conn[s].subscribedWorkspaces
           k == conn[s].subscribedTasks
           w2 == conn'[s].subscribedWorkspaces
           k2 == conn'[s].subscribedTasks
       IN /\ Subscribe(s) /\ conn'[s] # conn[s] =>
               \E p \in SubscribeInputs :
                  w2 = w \cup p.workspaces /\ k2 = k \cup p.tasks
          /\ Unsubscribe(s) /\ conn'[s] # conn[s] =>
               \E p \in SubscribeInputs :
                  w2 = w \ p.workspaces /\ k2 = k \ p.tasks
          /\ (w2 # w \/ k2 # k) =>
               Subscribe(s) \/ Unsubscribe(s) \/ Connect(s)

\* C14: after any sequence of subscribe and unsubscribe messages on a
\* connection, starting from its subscription to 'default', a
\* workspace-scoped broadcast for workspace W reaches the connection, open
\* and registered, if and only if W or '*' is in its workspace filter at
\* that time; the task filter has no influence.
C14_WorkspaceFilterDecides ==
    [][C14_ByWorkspaceOnly]_vars /\ [][C14_FiltersFollowMessages]_vars

\* a workspace broadcast has reached one live connection and not an older
\* live one, which has left 'default'
C14_Witness ==
    \E a, b \in SocketIds :
        /\ b < a /\ Live(a) /\ Live(b)
        /\ "default" \notin conn[b].subscribedWorkspaces
        /\ Broadcasts(b) = << >>
        /\ Len(Broadcasts(a)) = 1
        /\ Broadcasts(a)[1].type \in {"task_update", "plan_update"}

\* C15, in every step: a task_update or progress_update about task t sends
\* its envelope to every live connection whose task filter contains t
C15_ReachesTaskFilter ==
    \A t \in WatchedTasks :
        (BroadcastProgress(t)
           \/ \E W \in ScopeInputs : BroadcastTaskUpdate(t, W))
        => \A s \in SocketIds :
             (Live(s) /\ t \in conn[s].subscribedTasks)
             => /\ Len(conn'[s].inbox) > Len(conn[s].inbox)
                /\ conn'[s].inbox[Len(conn'[s].inbox)].timestamp = now'

\* C15: every task-scoped envelope about task t (task_update and
\* progress_update) is delivered to every open registered connection whose
\* task filter contains t, whatever its workspace filter, besides the
\* connections matched by workspace.
C15_TaskSubscribersReached == [][C15_ReachesTaskFilter]_vars

\* socket s has connected at some time
Connected(s) == conn[s].readyState # "NONE"

\* C16, in every state: no two connections were given the same id
C16_IdsDiffer ==
    \A a, b \in SocketIds :
        (a # b /\ Connected(a) /\ Connected(b)) => conn[a].id # conn[b].id

\* C16, in every step: a connection that is made is put into the registry
\* under its id with the workspace filter {default} and no task filter,
\* and no other connection changes
C16_StartsOnDefault ==
    \A s \in SocketIds :
        Connect(s) =>
          /\ conn'[s].subscribedWorkspaces = {"default"}
          /\ conn'[s].subscribedTasks = {}
          /\ \E k \in 1..Len(clients') :
               clients'[k] = [id |-> conn'[s].id, sock |-> s]
          /\ \A o \in SocketIds \ {s} : conn'[o] = conn[o]

\* C16: each new socket connection is registered under an id that no other
\* connection of the process has or had, also across stop() and start() of
\* the server, and starts with the workspace filter {default} and an empty
\* task filter, whatever earlier connections subscribed to.
C16_FreshConnection == [](C16_IdsDiffer) /\ [][C16_StartsOnDefault]_vars

\* a connection made after a stop() and start(), while the socket of an
\* earlier connection, which had subscribed to more, is still open
C16_Witness ==
    \E a, b \in SocketIds :
        /\ a < b /\ Live(b)
        /\ conn[a].readyState = "OPEN" /\ ~Registered(a)
        /\ conn[a].subscribedWorkspaces # {"default"}
        /\ conn[b].subscribedWorkspaces = {"default"}

\* C17, in every state: deleting the id of a connection from the registry
\* a second time changes nothing
C17_DeleteTwice ==
    \A s \in SocketIds :
        Connected(s) =>
          LET once == MapDelete(clients, conn[s].id)
          IN MapDelete(once, conn[s].id) = once

\* C17, in every step: a close or error event of socket s leaves the
\* registry without the connection of s and otherwise as it was, and
\* leaves every filter and every other socket as it was
C17_DropsOnlyItself ==
    \A s \in SocketIds :
        (OnClose(s) \/ OnError(s)) =>
          /\ clients' = SelectSeq(clients, LAMBDA e : e.sock # s)
          /\ \A o \in SocketIds \ {s} : conn'[o] = conn[o]
          /\ conn'[s].subscribedWorkspaces = conn[s].subscribedWorkspaces
          /\ conn'[s].subscribedTasks = conn[s].subscribedTasks
          /\ conn'[s].inbox = conn[s].inbox

\* C17, in every step: a connection that is not in the registry is sent
\* no broadcast
C17_NoLateBroadcast ==
    \A s \in SocketIds :
        (Connected(s) /\ ~Registered(s) /\ conn'[s] # conn[s])
        => BroadcastsIn(conn'[s].inbox) = Broadcasts(s)

\* C17: unregistering a connection is idempotent: its close and error
\* events, in any order and any number of times, have the effect of one
\* unregister (the connection is out of the registry and gets no later
\* broadcast), never fail, and leave every other connection and its
\* filters unchanged.
C17_UnregisterIdempotent ==
    /\ [](C17_DeleteTwice)
    /\ [][C17_DropsOnlyItself]_vars
    /\ [][C17_NoLateBroadcast]_vars

\* a connection dropped by its close or error event while an older one is
\* still live and has been sent a broadcast since
C17_Witness ==
    \E s, o \in SocketIds :
        /\ o < s /\ Live(o)
        /\ conn[s].readyState = "CLOSED" /\ ~Registered(s)
        /\ Len(Broadcasts(o)) > Len(Broadcasts(s))

\* C18, in every step: a subscribe message of a connection that is not in
\* the registry changes neither of its filter sets and sends it nothing
C18_OnlyRegisteredSubscribe ==
    \A s \in SocketIds :
        (Subscribe(s) /\ ~Registered(s)) => conn'[s] = conn[s]

\* C18: a subscribe for a connection that is not, or no longer, in the
\* registry is a no-op: no filter set is changed and no envelope is sent in
\* response.
C18_UnknownSubscribeIsNoOp == [][C18_OnlyRegisteredSubscribe]_vars

\* C19, in every state: the broadcast envelopes a socket was sent are in
\* the order of the calls that made them (a later call stamps later)
C19_InCallOrder ==
    \A s \in SocketIds :
        LET b == Broadcasts(s)
        IN \A i, j \in 1..Len(b) :
             i < j => b[i].timestamp <= b[j].timestamp

\* C19, in every step: what a socket is sent is put behind what it was
\* sent before
C19_AppendsOnly ==
    \A s \in SocketIds :
        /\ Len(conn'[s].inbox) >= Len(conn[s].inbox)
        /\ SubSeq(conn'[s].inbox, 1, Len(conn[s].inbox)) = conn[s].inbox

\* C19: for any one connection, the envelopes it receives arrive in the
\* order of the broadcast calls that produced them, for every interleaving
\* of broadcasts, subscribes and other connections' connects and
\* disconnects.
C19_DeliveryInPublishOrder == [](C19_InCallOrder) /\ [][C19_AppendsOnly]_vars

\* a connection has been sent the envelopes of two broadcast calls
C19_Witness ==
    \E s \in SocketIds :
        /\ Len(Broadcasts(s)) = 2
        /\ Broadcasts(s)[1].timestamp < Broadcasts(s)[2].timestamp

\* this step is a call of one of the broadcast methods
IsBroadcast ==
    \/ BroadcastAll
    \/ \E t \in WatchedTasks : BroadcastProgress(t)
    \/ \E t \in WatchedTasks, W \in ScopeInputs :
          \/ BroadcastTaskUpdate(t, W) \/ BroadcastPlanUpdate(t, W)
          \/ BroadcastApprovalRequest(t, W)

\* C20, in every state: the broadcast methods can be called and run to
\* their end, whatever the sockets of the registry are
C20_NeverFails ==
    now < MaxNow =>
      /\ ENABLED BroadcastAll
      /\ \A t \in WatchedTasks :
           /\ ENABLED BroadcastProgress(t)
           /\ \A W \in ScopeInputs :
                /\ ENABLED BroadcastTaskUpdate(t, W)
                /\ ENABLED BroadcastPlanUpdate(t, W)
                /\ ENABLED BroadcastApprovalRequest(t, W)

\* C20, in every step: a broadcast leaves a socket that is not open as it
\* was, and sends its envelope to every live connection it selects
C20_SkipsClosedOnly ==
    /\ IsBroadcast =>
         \A s \in SocketIds :
            conn[s].readyState # "OPEN" => conn'[s] = conn[s]
    /\ BroadcastAll => \A s \in SocketIds : Live(s) => GetsOne(s)
    /\ \A t \in WatchedTasks :
         BroadcastProgress(t) =>
           \A s \in SocketIds :
              (Live(s) /\ (t \in conn[s].subscribedTasks
                             \/ "default" \in conn[s].subscribedWorkspaces
                             \/ "*" \in conn[s].subscribedWorkspaces))
              => Len(conn'[s].inbox) > Len(conn[s].inbox)
    /\ \A t \in WatchedTasks, W \in ScopeInputs :
         (BroadcastTaskUpdate(t, W) \/ BroadcastPlanUpdate(t, W)
            \/ BroadcastApprovalRequest(t, W)) =>
           \A s \in SocketIds :
              (Live(s) /\ (W \in conn[s].subscribedWorkspaces
                             \/ "*" \in conn[s].subscribedWorkspaces))
              => Len(conn'[s].inbox) > Len(conn[s].inbox)

\* C20, in every step: a broadcast envelope that a socket is sent is the
\* envelope of the call made in this step, never one of an earlier call
C20_NothingQueued ==
    \A s \in SocketIds :
        \A k \in (Len(conn[s].inbox) + 1)..Len(conn'[s].inbox) :
            conn'[s].inbox[k].type \in BroadcastTypes
            => IsBroadcast /\ conn'[s].inbox[k].timestamp = now'

\* C20: a broadcast never fails for its caller because of a connection
\* whose socket has closed but is still selected: that connection does not
\* get the envelope, nothing is retried or queued for it, and every other
\* matching open connection still gets the envelope.
C20_ClosedSocketIsSkipped ==
    /\ [](C20_NeverFails)
    /\ [][C20_SkipsClosedOnly]_vars
    /\ [][C20_NothingQueued]_vars

\* broadcastAll was called while socket s, closed but still in the
\* registry, was selected: the live connection o has the envelope, s not
C20_Witness ==
    \E s, o \in SocketIds :
        /\ s < o /\ Live(o)
        /\ Registered(s) /\ conn[s].readyState = "CLOSED"
        /\ Broadcasts(s) = << >>
        /\ Len(Broadcasts(o)) = 1 /\ Broadcasts(o)[1].type = "notice"

\* ---------------------------------------------------------------- C21
\* a stream that is open was registered by the step that opened it, and
\* that step wrote the connected frame and nothing else
C21_OpensRegistered ==
    \A s \in StreamIds :
        OpenStream(s) =>
            /\ s \in sseClients'
            /\ stream'[s].frames = <<"connected">>

\* the first frame of every stream is the connected frame
C21_ConnectedFirst ==
    \A s \in StreamIds :
        stream[s].state # "NONE" =>
            /\ stream[s].frames # << >>
            /\ stream[s].frames[1] = "connected"

\* after the abort the controller is out of the registry, its timer is
\* cleared and its stream takes no more frames
C21_AbortTearsDown ==
    \A s \in StreamIds :
        stream[s].aborted =>
            /\ s \notin sseClients
            /\ ~stream[s].pingInterval
            /\ ~Enqueues(stream[s])

\* no step writes a frame to a stream whose request was aborted
C21_SilentAfterAbort ==
    \A s \in StreamIds :
        stream[s].aborted => stream'[s].frames = stream[s].frames

\* C21: opening a push stream registers the client and sends it the
\* connected frame before any other frame; when its request is aborted the
\* client is unregistered, its heartbeat timer is stopped and its stream is
\* closed, and no frame is written to it afterwards.
C21_OpenThenAbort ==
    /\ [](C21_ConnectedFirst /\ C21_AbortTearsDown)
    /\ [][C21_OpensRegistered /\ C21_SilentAfterAbort]_vars

\* a stream that got a heartbeat or an event was aborted, while another
\* one is still registered and has got an event
C21_Witness ==
    \E s, o \in StreamIds :
        /\ stream[s].aborted /\ Len(stream[s].frames) >= 2
        /\ o \in sseClients /\ stream[o].frames[Len(stream[o].frames)] = "event"
        /\ Len(stream[o].frames) > Len(stream[s].frames)

\* ---------------------------------------------------------------- C22
\* the answer to a subscribe message: one envelope more on the socket, of
\* type subscribed, listing both filter sets as they are after the message
C22_OneAnswer(s) ==
    conn'[s].inbox =
        Append(conn[s].inbox,
               [type |-> "subscribed",
                workspaces |-> conn'[s].subscribedWorkspaces,
                tasks |-> conn'[s].subscribedTasks])

\* the filter sets after the message are those before it together with
\* the ids of one request
C22_UnionOfRequest(s) ==
    \E p \in SubscribeInputs :
        /\ conn'[s].subscribedWorkspaces =
              conn[s].subscribedWorkspaces \cup p.workspaces
        /\ conn'[s].subscribedTasks = conn[s].subscribedTasks \cup p.tasks

\* C22: every subscribe message of a registered open connection is
\* answered with exactly one subscribed envelope, sent to that connection
\* only, whose payload lists the complete workspace and task filter sets
\* of the connection as they are after the union with the requested ids.
C22_SubscribeIsAcknowledged ==
    [][\A s \in SocketIds :
         (Subscribe(s) /\ Registered(s)) =>
             /\ C22_OneAnswer(s)
             /\ C22_UnionOfRequest(s)
             /\ \A o \in SocketIds \ {s} : conn'[o] = conn[o]]_vars

\* ---------------------------------------------------------------- C23
\* the ids of the migrations list
MigrationIds == {Migrations[k] : k \in 1..Len(Migrations)}

\* how often m is in the list
Count(list, m) == Cardinality({k \in 1..Len(list) : list[k] = m})

\* no migration has its changes or its row in the database twice
C23_AtMostOnce ==
    \A m \in MigrationIds :
        Count(db.schema, m) <= 1 /\ Count(db.ledger, m) <= 1

\* when a call has returned, every migration is applied and in the ledger
C23_AllAfterReturn ==
    \A p \in Processes :
        run[p].pc = "done" =>
            \A m \in MigrationIds :
                Count(db.schema, m) = 1 /\ Count(db.ledger, m) = 1

\* once the ledger is complete no step of any call changes the database
C23_NothingLeftToApply ==
    LedgerIds(db) = MigrationIds => db' = db

\* C23: over any number of runMigrations calls on one database each
\* migration is applied at most once; after a call that completes every
\* migration id is in the ledger exactly once, and a further call applies
\* nothing.
C23_EachMigrationOnce ==
    /\ [](C23_AtMostOnce /\ C23_AllAfterReturn)
    /\ [][C23_NothingLeftToApply]_vars

\* a call that found every migration applied has returned, while the call
\* of the other process has failed
C23_Witness ==
    \E p, q \in Processes :
        /\ run[p].pc = "done" /\ run[p].applied = MigrationIds
        /\ run[q].pc = "threw"

\* ---------------------------------------------------------------- C24
\* the changes of a migration are committed exactly when its row is, and
\* the ledger is the migrations list up to some place
C24_LedgerIsPrefix ==
    /\ db.schema = db.ledger
    /\ Len(db.ledger) <= Len(Migrations)
    /\ db.ledger = SubSeq(Migrations, 1, Len(db.ledger))

\* a step that changes the database applies the first migration that is
\* not in the ledger, with its row
C24_NextInOrder ==
    db' # db =>
        /\ Len(db.ledger) < Len(Migrations)
        /\ db'.ledger = Append(db.ledger, Migrations[Len(db.ledger) + 1])
        /\ db'.schema = Append(db.schema, Migrations[Len(db.ledger) + 1])

\* the step in which a migration of a call fails leaves the database as it
\* was, and the call throws
C24_FailureLeavesNothing ==
    \A p \in Processes :
        (run[p].pc = "loop" /\ run'[p].pc = "threw") => db' = db

\* a call that has thrown runs no further migration: it only ends
C24_StopsAtFailure ==
    \A p \in Processes :
        run[p].pc = "threw" => run'[p] \in {run[p], IdleRun}

\* a call starts from what the ledger holds, and skips exactly that
C24_ResumesFromLedger ==
    \A p \in Processes :
        (run[p].pc = "idle" /\ run'[p].pc = "loop") =>
            /\ run'[p].applied = LedgerIds(db)
            /\ run'[p].i = 1

\* C24: migrations run in list order, each atomic with its ledger entry:
\* when one fails neither its changes nor its entry persist, the error is
\* thrown again and the call runs no later migration; the ledger is always
\* a prefix of the migrations list, from which a later call resumes.
C24_AtomicAndInOrder ==
    /\ []C24_LedgerIsPrefix
    /\ [][/\ C24_NextInOrder
          /\ C24_FailureLeavesNothing
          /\ C24_StopsAtFailure
          /\ C24_ResumesFromLedger]_vars

\* a call has failed part of the way, and a call that started from the
\* ledger it left has applied a migration of its own
C24_Witness ==
    \E p, q \in Processes :
        /\ run[q].pc = "threw"
        /\ run[p].pc = "loop"
        /\ run[p].applied # {} /\ run[p].applied # MigrationIds
        /\ Len(db.ledger) > Cardinality(run[p].applied)
        /\ run[p].i = Len(db.ledger) + 1

\* ---------------------------------------------------------------- C25
\* C25: starting the socket server is idempotent: start, and
\* startWebSocketServer (which is all initWebSocket calls), on a server
\* that is running make no second server and leave the registry, the
\* subscriptions of the connections and the id counter as they are.
C25_StartIsIdempotent ==
    [][(wss /\ \E port \in PortInputs :
                 WsStart(port) \/ StartWebSocketServer(port)) =>
           /\ wss'
           /\ clients' = clients
           /\ clientIdCounter' = clientIdCounter
           /\ conn' = conn]_vars

\* a running server that start can be called on: it has handed out two
\* ids and holds a connection with a task subscription
C25_Witness ==
    /\ wss /\ now < MaxNow
    /\ clientIdCounter >= 2
    /\ \E s \in SocketIds :
         /\ Registered(s)
         /\ conn[s].subscribedTasks # {}
    /\ \A port \in PortInputs :
         ENABLED WsStart(port) /\ ENABLED StartWebSocketServer(port)

\* ---------------------------------------------------------------- C26
\* C26: a push-stream client whose heartbeat write raises is torn down at
\* once: the step in which the write raises takes it out of the registry
\* and stops its timer, so that no later write is tried on it.
C26_RaisingWriteTearsDown ==
    [][\A s \in StreamIds :
         (Ping(s) /\ ~Enqueues(stream[s])) =>
             /\ s \notin sseClients'
             /\ ~stream'[s].pingInterval]_vars

\* ---------------------------------------------------------------- C27
\* C27: one call of a broadcast method hands at most one copy of its
\* envelope to any connection, whichever of its filters match.
C27_OneCopyPerCall ==
    [][IsBroadcast =>
         \A s \in SocketIds :
             Len(conn'[s].inbox) <= Len(conn[s].inbox) + 1]_vars

\* ---------------------------------------------------------------- C28
\* C28: when a createPlan, approve or reject call returns an error
\* response, the tasks and the activities are as they were when the call
\* began.
C28_ErrorLeavesStoreAsItWas ==
    \A r \in Callers :
        (AtReturn(r) /\ req[r].status # 200)
        => /\ tasks = req[r].pre.tasks
           /\ activities = req[r].pre.activities

\* ---------------------------------------------------------------- C29
\* C29: in every state that start, stop, connect, subscribe, close and
\* error events lead to, the registry holds the connections whose socket
\* has connected and has not closed or failed since: a socket that is open
\* is in the registry, and a socket in the registry has connected and is
\* open or has its close event still to be handled.
C29_RegistryIsTheOpenSockets ==
    \A s \in SocketIds :
        /\ conn[s].readyState = "OPEN" => Registered(s)
        /\ Registered(s) => conn[s].readyState \in {"OPEN", "CLOSED"}

\* ---------------------------------------------------------------- C30
\* the WebSocket objects of the hook that are connecting or connected
LiveSocks == {k \in HookSockets : sock[k].readyState \in {"CONNECTING", "OPEN"}}

\* C30: the hook reconnects only while it is mounted: once the component
\* is unmounted no reconnect timer is pending and no connection of the hook
\* is live, a live connection or a pending timer is always of the current
\* url and workspace, and the hook never has two live connections.
C30_ReconnectsOnlyWhileMounted ==
    /\ hook.phase = "unmounted" => (timer = {} /\ LiveSocks = {})
    /\ \A k \in LiveSocks \cup timer : sock[k].deps = hook.deps
    /\ Cardinality(LiveSocks) <= 1

====
